---- MODULE Spec2Model ----
(***************************************************************************)
(* Model of the virtual drawing board (src/src/VirtualDrawingBoard/app.py, *)
(* the pinch variant; src/src/app.py shares the ledger code verbatim).     *)
(*                                                                         *)
(* Two threads run Python code on one VideoThread object:                  *)
(*   "frame" : VideoThread.run, the frame loop (a QThread);                *)
(*   "gui"   : the Qt main thread, which runs the button handlers          *)
(*             toggle_draw, undo, clear and closeEvent/stop.               *)
(* The code takes no lock.  Python lists are objects: self.lines refers to *)
(* an outer list whose elements refer to inner lists (the strokes), so the *)
(* model keeps a heap of outer lists and a heap of strokes, and each       *)
(* thread keeps the references it has on its evaluation stack.  One action *)
(* is one read or one write of the shared object.                          *)
(***************************************************************************)
EXTENDS Integers, Sequences, FiniteSets, TLC

\* ---------------------------------------------------------------- bounds
MaxStrokes == 3     \* strokes in the ledger before an operation that may push one
MaxPts == 2         \* points in a stroke before a frame that may append one
NumOuter == 3       \* pool of outer-list identities
NumStroke == 8      \* pool of stroke identities
NumHeights == 2     \* heights a landmark takes in the finger-up variant
MaxWritten == 1     \* files written by save
MaxReplaced == 1    \* replaced VideoThreads that have not yet released their camera
MinCoord == 8       \* the grid of hundredths check_if_pinched is applied to:
MaxCoord == 16      \*   MinCoord..MaxCoord on both axes

\* ------------------------------------------------------ program constants
pinch_tolerance == 5      \* hundredths: self.pinch_tolerance = 0.05
image_width == 640
image_height == 480

Threads == {"frame", "gui"}
OuterIds == 1..NumOuter
StrokeIds == 1..NumStroke

\* Landmark coordinates are normalised to 0..1; the model keeps hundredths.
IftInputs == {<<10, 10>>}
TtInputs == {<<14, 14>>, <<16, 10>>, <<10, 16>>}

VARIABLES
    outer,              \* heap: outer list identity -> sequence of stroke identities
    strokes,            \* heap: stroke identity -> sequence of StrokePoints
    lines,              \* self.lines: the identity of the current outer list
    draw,               \* self.draw
    board,              \* self.board: None or the last snapshot
    run_video_thread,   \* self.run_video_thread
    video,              \* self.video: "open" or "released"
    label,              \* text of the "Drawing: ON/OFF" label
    line_thickness,     \* settings.line_thickness
    line_color,         \* settings.line_color
    pc,                 \* position of each thread
    ret,                \* where check_for_new_line / clear return to, per thread
    ro,                 \* outer list on the thread's stack (0: none)
    rn,                 \* len(self.lines) as read by the thread
    rs,                 \* stroke on the thread's stack (0: none)
    delete_number,      \* undo's local
    results,            \* run's local: a hand was detected in this frame
    is_pinched,         \* run's local
    xy,                 \* run's locals x, y
    landmarks,          \* run's local: the landmarks of the detected hand
    is_index_finger_up, \* run's local (finger-up variant)
    errors,             \* number of error_signal emissions of the current VideoThread
    it,                 \* history of the current loop iteration
    cmd,                \* history: the user command in progress or just returned
    image,              \* save's local: the snapshot the button was pressed on
    path,               \* save's local: the path the dialog returned
    written,            \* the files written by cv2.imwrite: <<path, image>>
    replaced_open,      \* VideoThreads replaced by Retry whose self.video is not released
    pre,                \* history: ledger, draw and board when that command started (Spec)
    stale               \* history: strokes that held a point when the gesture was interrupted

mem == <<outer, strokes, lines, ro, rs>>
shared == <<draw, board, run_video_thread, video, label, line_thickness, line_color>>
policy == <<landmarks, is_index_finger_up>>
flocals == <<results, is_pinched, xy, errors, it, policy>>
saving == <<image, path, written>>
glocals == <<delete_number, cmd, saving, replaced_open>>
vars == <<outer, strokes, lines, draw, board, run_video_thread, video, label,
          line_thickness, line_color, pc, ret, ro, rn, rs, delete_number,
          results, is_pinched, xy, landmarks, is_index_finger_up, errors, it,
          cmd, image, path, written, replaced_open, pre, stale>>

\* ------------------------------------------------------------ Python lists
Range(s) == {s[i] : i \in 1..Len(s)}

Min(S) == CHOOSE x \in S : \A y \in S : x <= y

\* Python's list[idx] raises IndexError unless -len <= idx < len.
IndexOk(seq, idx) == idx < Len(seq) /\ idx >= -Len(seq)

\* Python's list[idx]: a negative idx counts from the end.
Subscript(seq, idx) == IF idx >= 0 THEN seq[idx + 1] ELSE seq[Len(seq) + idx + 1]

\* Variant of SliceOff: list[:k], the sign of the slice bound lost.
SliceFirst(seq, k) == SubSeq(seq, 1, IF Len(seq) > k THEN k ELSE Len(seq))

\* Python's list[:-k] for k >= 1: a new list without the last k elements.
SliceOff(seq, k) == SubSeq(seq, 1, IF Len(seq) > k THEN Len(seq) - k ELSE 0)

\* ------------------------------------------------------------------- heap
\* Objects no reference reaches are freed (and their identity is reused).
LiveOuter(l, o) == ({l} \cup {o[t] : t \in Threads}) \ {0}

LiveStrokes(ou, l, o, s) ==
    (UNION {Range(ou[i]) : i \in LiveOuter(l, o)} \cup {s[t] : t \in Threads}) \ {0}

FreeOuter == OuterIds \ LiveOuter(lines, ro)

FreeStroke == StrokeIds \ LiveStrokes(outer, lines, ro, rs)

\* The program observes identities only through the objects they lead to, so
\* every state is kept with its objects named in the order in which the
\* references reach them: self.lines first, then the threads' stacks.
\* The references to outer lists, and the strokes they reach, in that order.
OuterRefs(l, o) == <<l, o["frame"], o["gui"]>>

StrokeRefs(ou, l, o, s) ==
    ou[l] \o (IF o["frame"] = 0 THEN <<>> ELSE ou[o["frame"]])
          \o (IF o["gui"] = 0 THEN <<>> ELSE ou[o["gui"]])
          \o <<s["frame"], s["gui"]>>

\* The places of a sequence of references that hold an object's first mention.
Firsts(refs) == {i \in 1..Len(refs) : refs[i] # 0 /\ \A j \in 1..(i - 1) : refs[j] # refs[i]}

\* The new name of the object x (0 stays 0), and the object with new name k.
NewName(refs, x) ==
    IF x = 0 THEN 0
    ELSE Cardinality({i \in Firsts(refs) : i <= Min({j \in 1..Len(refs) : refs[j] = x})})

OldName(refs, k) ==
    refs[CHOOSE i \in Firsts(refs) : Cardinality({j \in Firsts(refs) : j <= i}) = k]

\* The next state of the heap and of the references into it: the objects no
\* reference reaches are freed.
Mem(ou, st, l, o, s) ==
    LET orefs == OuterRefs(l, o)
        srefs == StrokeRefs(ou, l, o, s)
        no == Cardinality(Firsts(orefs))
        ns == Cardinality(Firsts(srefs))
    IN  /\ lines' = NewName(orefs, l)
        /\ ro' = [t \in Threads |-> NewName(orefs, o[t])]
        /\ rs' = [t \in Threads |-> NewName(srefs, s[t])]
        /\ outer' = [k \in OuterIds |->
                        IF k <= no
                        THEN [j \in 1..Len(ou[OldName(orefs, k)]) |->
                                 NewName(srefs, ou[OldName(orefs, k)][j])]
                        ELSE <<>>]
        /\ strokes' = [k \in StrokeIds |->
                          IF k <= ns THEN st[OldName(srefs, k)] ELSE <<>>]
        /\ stale' = {NewName(srefs, x) : x \in stale \cap LiveStrokes(ou, l, o, s)}

\* The ledger as a value: the strokes of self.lines, in order.
LedgerOf(ou, st, l) == [i \in 1..Len(ou[l]) |-> st[ou[l][i]]]

Ledger == LedgerOf(outer, strokes, lines)

Last(seq) == seq[Len(seq)]

\* A frame: the cv2.line calls and the cv2.circle calls drawn on it.
NoFrame == [lines |-> <<>>, circles |-> <<>>]

NoIter == [failed |-> FALSE, mutated |-> FALSE, appended |-> FALSE,
           emitted |-> FALSE, indicator |-> FALSE, decided |-> "none",
           late |-> FALSE, joined |-> FALSE, style |-> <<>>, phases |-> <<>>,
           sent |-> NoFrame]
\* phases: what this iteration has done so far, in order: "classify" (the
\* hand detection and the gesture policy), "mutate" (an append to the ledger),
\* "render" (draw_lines and the snapshot), "emit" (the data signal).
\* sent: the frame this iteration handed to the data signal.
\* style: the settings when this frame appended its point.
\* joined: the point of this frame was appended to a stroke of the ledger that
\* held a point when an earlier frame interrupted the gesture.

\* The landmarks the model keeps of a hand, each a pair <<x, y>>.
HandLandmark == {"WRIST", "THUMB_TIP", "INDEX_FINGER_TIP"}

NoLandmarks == [l \in HandLandmark |-> <<0, 0>>]

\* self.board = None.  A board is the strokes (canvas) and the circles drawn
\* on it, and whether it is mirrored.
NoBoard == [none |-> TRUE, canvas |-> <<>>, circles |-> <<>>, flipped |-> FALSE]

NoPre == [ledger |-> <<>>, draw |-> TRUE, board |-> NoBoard]

\* __init__: the state of a new VideoThread, with the window's label.
Init ==
    /\ outer = [i \in OuterIds |-> IF i = 1 THEN <<1>> ELSE <<>>]
    /\ strokes = [i \in StrokeIds |-> <<>>]
    /\ lines = 1
    /\ draw = TRUE
    /\ board = NoBoard
    /\ run_video_thread = TRUE
    /\ video = "open"
    /\ label = "Drawing: ON"
    /\ line_thickness = 10
    /\ line_color = <<255, 0, 0>>
    /\ pc = [t \in Threads |-> IF t = "frame" THEN "while" ELSE "idle"]
    /\ ret = [t \in Threads |-> "none"]
    /\ ro = [t \in Threads |-> 0]
    /\ rn = [t \in Threads |-> 0]
    /\ rs = [t \in Threads |-> 0]
    /\ delete_number = 0
    /\ results = FALSE
    /\ is_pinched = FALSE
    /\ xy = <<0, 0>>
    /\ landmarks = NoLandmarks
    /\ is_index_finger_up = FALSE
    /\ errors = 0
    /\ it = NoIter
    /\ cmd = "none"
    /\ image = NoBoard
    /\ path = ""
    /\ written = {}
    /\ replaced_open = 0
    /\ pre = NoPre
    /\ stale = {}

\* ------------------------------------------- self.lines[len(self.lines) - 1]
\* The expression reads the shared object three times: it loads self.lines,
\* loads self.lines again for len(), and subscripts the list loaded first.
LastLoad(t, from, to) ==
    /\ pc[t] = from
    /\ pc' = [pc EXCEPT ![t] = to]
    /\ Mem(outer, strokes, lines, [ro EXCEPT ![t] = lines], rs)
    /\ UNCHANGED rn

LastLen(t, from, to) ==
    /\ pc[t] = from
    /\ pc' = [pc EXCEPT ![t] = to]
    /\ rn' = [rn EXCEPT ![t] = Len(outer[lines])]
    /\ UNCHANGED <<mem, stale>>

\* IndexError ("list index out of range") ends the thread's handler.
LastSubscript(t, from, to) ==
    /\ pc[t] = from
    /\ IF IndexOk(outer[ro[t]], rn[t] - 1)
       THEN /\ pc' = [pc EXCEPT ![t] = to]
            /\ Mem(outer, strokes, lines, [ro EXCEPT ![t] = 0],
                   [rs EXCEPT ![t] = Subscript(outer[ro[t]], rn[t] - 1)])
       ELSE /\ pc' = [pc EXCEPT ![t] = "raised"]
            /\ Mem(outer, strokes, lines, [ro EXCEPT ![t] = 0], rs)
    /\ rn' = [rn EXCEPT ![t] = 0]

\* ------------------------------------------------------ check_for_new_line
CfnlLoad(t) ==
    /\ LastLoad(t, "cfnl_load", "cfnl_len")
    /\ UNCHANGED <<shared, ret, flocals, glocals>>

CfnlLen(t) ==
    /\ LastLen(t, "cfnl_len", "cfnl_idx")
    /\ UNCHANGED <<shared, ret, flocals, glocals>>

CfnlSubscript(t) ==
    /\ LastSubscript(t, "cfnl_idx", "cfnl_test")
    /\ UNCHANGED <<shared, ret, flocals, glocals>>

\* Variant of CfnlTest: the test of the last stroke left out, so that every
\* call appends a stroke.
CfnlTestAlways(t) ==
    /\ pc[t] = "cfnl_test"
    /\ pc' = [pc EXCEPT ![t] = "cfnl_load2"]
    /\ Mem(outer, strokes, lines, ro, [rs EXCEPT ![t] = 0])
    /\ UNCHANGED <<shared, ret, rn, flocals, glocals>>

\* Variant of CfnlTest: the test fails whatever the last stroke holds, so
\* that no call appends a stroke.
CfnlTestNever(t) ==
    /\ pc[t] = "cfnl_test"
    /\ pc' = [pc EXCEPT ![t] = ret[t]]
    /\ Mem(outer, strokes, lines, ro, [rs EXCEPT ![t] = 0])
    /\ UNCHANGED <<shared, ret, rn, flocals, glocals>>

\* if self.lines[...]: the truth value of the stroke is its being non-empty.
CfnlTest(t) ==
    /\ pc[t] = "cfnl_test"
    /\ pc' = [pc EXCEPT ![t] = IF strokes[rs[t]] # <<>> THEN "cfnl_load2" ELSE ret[t]]
    /\ Mem(outer, strokes, lines, ro, [rs EXCEPT ![t] = 0])
    /\ UNCHANGED <<shared, ret, rn, flocals, glocals>>

\* self.lines.append([]): load self.lines ...
CfnlLoad2(t) ==
    /\ pc[t] = "cfnl_load2"
    /\ pc' = [pc EXCEPT ![t] = "cfnl_append"]
    /\ Mem(outer, strokes, lines, [ro EXCEPT ![t] = lines], rs)
    /\ UNCHANGED <<shared, ret, rn, flocals, glocals>>

\* ... and append a new empty stroke to the list that was loaded.
CfnlAppend(t) ==
    /\ pc[t] = "cfnl_append"
    /\ FreeStroke # {}
    /\ pc' = [pc EXCEPT ![t] = ret[t]]
    /\ Mem([outer EXCEPT ![ro[t]] = Append(@, Min(FreeStroke))],
           [strokes EXCEPT ![Min(FreeStroke)] = <<>>],
           lines, [ro EXCEPT ![t] = 0], rs)
    /\ it' = IF t = "frame"
             THEN [it EXCEPT !.mutated = TRUE, !.late = (it.decided = "nodraw"),
                             !.phases = Append(@, "mutate")]
             ELSE it
    /\ UNCHANGED <<shared, ret, rn, policy, results, is_pinched, xy, errors, glocals>>

\* ---------------------------------------------------------------- add_line
AddLoad ==
    /\ LastLoad("frame", "add_load", "add_len")
    /\ UNCHANGED <<shared, ret, flocals, glocals>>

AddLen ==
    /\ LastLen("frame", "add_len", "add_idx")
    /\ UNCHANGED <<shared, ret, flocals, glocals>>

AddSubscript ==
    /\ LastSubscript("frame", "add_idx", "add_append")
    /\ UNCHANGED <<shared, ret, flocals, glocals>>

\* Variant of StrokePoint: the point keeps the default style, not the
\* settings' current one.
StrokePointDefaultStyle == <<xy, 10, <<255, 0, 0>> >>

\* .append([(x, y), settings.line_thickness, settings.line_color])
StrokePoint == <<xy, line_thickness, line_color>>

AddAppend ==
    /\ pc["frame"] = "add_append"
    /\ pc' = [pc EXCEPT !["frame"] = "render"]
    /\ it' = [it EXCEPT !.mutated = TRUE, !.appended = TRUE,
                        !.late = (it.decided = "nodraw"),
                        !.style = <<line_thickness, line_color>>,
                        !.phases = Append(@, "mutate"),
                        !.joined = (rs["frame"] \in stale /\ rs["frame"] \in Range(outer[lines]))]
    /\ Mem(outer, [strokes EXCEPT ![rs["frame"]] = Append(@, StrokePoint)],
           lines, ro, [rs EXCEPT !["frame"] = 0])
    /\ UNCHANGED <<shared, ret, rn, policy, results, is_pinched, xy, errors, glocals>>

\* ------------------------------------------------------------- frame loop
\* check_if_pinched's test: both differences strictly below the tolerance.
Abs(a) == IF a < 0 THEN -a ELSE a

\* The coordinates are Python floats (IEEE 754 doubles).  The double nearest
\* to k/100 is k/100 + RoundingError[k + 1] / (100 * 2^60), for k in 0..100.
RoundingError ==
    <<0, 24, 48, -128, 96, 320, -256, 768, 192, -384,
      640, 64, -512, 512, 1536, -640, 384, 1408, -768, 256,
      1280, -896, 128, 1152, -1024, 0, 1024, 2048, 3072, -2304,
      -1280, -256, 768, 1792, 2816, -2560, -1536, -512, 512, 1536,
      2560, -2816, -1792, -768, 256, 1280, 2304, -3072, -2048, -1024,
      0, 1024, 2048, 3072, 4096, 5120, 6144, -5632, -4608, -3584,
      -2560, -1536, -512, 512, 1536, 2560, 3584, 4608, 5632, -6144,
      -5120, -4096, -3072, -2048, -1024, 0, 1024, 2048, 3072, 4096,
      5120, 6144, -5632, -4608, -3584, -2560, -1536, -512, 512, 1536,
      2560, 3584, 4608, 5632, -6144, -5120, -4096, -3072, -2048, -1024,
      0>>

Max(a, b) == IF a >= b THEN a ELSE b

\* abs(a - b) < self.pinch_tolerance on doubles: the subtraction of the two
\* doubles is compared with the double nearest to the tolerance, so a
\* difference of exactly the tolerance is decided by the rounding errors.
BelowTolerance(a, b) ==
    IF Abs(a - b) # pinch_tolerance
    THEN Abs(a - b) < pinch_tolerance
    ELSE RoundingError[Max(a, b) + 1] - RoundingError[Max(a, b) - pinch_tolerance + 1]
            < RoundingError[pinch_tolerance + 1]

\* Variant of Pinched: the test of the y axis left out.
PinchedXOnly(ift, tt) == BelowTolerance(ift[1], tt[1])

Pinched(ift, tt) == BelowTolerance(ift[1], tt[1]) /\ BelowTolerance(ift[2], tt[2])

\* get_coordinates: the midpoint scaled to pixels and truncated
\* (coordinates in hundredths, so /2 and *width become \div 200; on IftInputs
\* and TtInputs the doubles give the same pixels).
get_coordinates(ift, tt) ==
    << ((ift[1] + tt[1]) * image_width) \div 200,
       ((ift[2] + tt[2]) * image_height) \div 200 >>

\* The length of the last stroke of self.lines (0 when self.lines is empty).
CurrentLen == IF outer[lines] = <<>> THEN 0 ELSE Len(strokes[Last(outer[lines])])

LastEmpty == CurrentLen = 0

\* An operation that may push a stroke starts only below the bound.
CanPush == Len(outer[lines]) < MaxStrokes

\* An active frame is read only while no stroke exceeds the bound and, with
\* drawing enabled, the last stroke has not reached it.
CanAppend ==
    /\ \A s \in LiveStrokes(outer, lines, ro, rs) : Len(strokes[s]) <= MaxPts
    /\ ~draw \/ CurrentLen < MaxPts

\* The strokes that hold a point when a frame interrupts the gesture.
Interrupted == {s \in LiveStrokes(outer, lines, ro, rs) : strokes[s] # <<>>}

\* while self.run_video_thread: the locals of the last iteration are dead.
While ==
    /\ pc["frame"] = "while"
    /\ pc' = [pc EXCEPT !["frame"] = IF run_video_thread THEN "read" ELSE "release"]
    /\ it' = NoIter
    /\ results' = FALSE
    /\ is_pinched' = FALSE
    /\ xy' = <<0, 0>>
    /\ landmarks' = NoLandmarks
    /\ is_index_finger_up' = FALSE
    /\ UNCHANGED <<mem, stale, shared, ret, rn, errors, glocals>>

\* Variant of ReadFail: the break left out, so that the loop goes on.
ReadFailContinue ==
    /\ pc["frame"] = "read"
    /\ pc' = [pc EXCEPT !["frame"] = "while"]
    /\ errors' = errors + 1
    /\ it' = [NoIter EXCEPT !.failed = TRUE]
    /\ UNCHANGED <<mem, stale, shared, ret, rn, policy, results, is_pinched, xy, glocals>>

\* success is False: emit error_signal and break.
ReadFail ==
    /\ pc["frame"] = "read"
    /\ pc' = [pc EXCEPT !["frame"] = "release"]
    /\ errors' = errors + 1
    /\ it' = [NoIter EXCEPT !.failed = TRUE]
    /\ UNCHANGED <<mem, stale, shared, ret, rn, policy, results, is_pinched, xy, glocals>>

\* Variant of ReadNoHand: the else branch left out, so that a frame without
\* landmarks goes on to rendering without check_for_new_line.
ReadNoHandNoCheck ==
    /\ pc["frame"] = "read"
    /\ CanPush
    /\ pc' = [pc EXCEPT !["frame"] = "render"]
    /\ ret' = [ret EXCEPT !["frame"] = "render"]
    /\ results' = FALSE
    /\ is_pinched' = FALSE
    /\ xy' = <<0, 0>>
    /\ it' = [NoIter EXCEPT !.phases = <<"classify">>]
    /\ stale' = Interrupted
    /\ UNCHANGED <<mem, shared, rn, policy, errors, glocals>>

\* A frame without landmarks: results is empty, check_for_new_line is called.
ReadNoHand ==
    /\ pc["frame"] = "read"
    /\ CanPush
    /\ pc' = [pc EXCEPT !["frame"] = "cfnl_load"]
    /\ ret' = [ret EXCEPT !["frame"] = "render"]
    /\ results' = FALSE
    /\ is_pinched' = FALSE
    /\ xy' = <<0, 0>>
    /\ it' = [NoIter EXCEPT !.phases = <<"classify">>]
    /\ stale' = Interrupted
    /\ UNCHANGED <<mem, shared, rn, policy, errors, glocals>>

\* A frame with landmarks: get_coordinates, then check_if_pinched, which
\* returns True or calls check_for_new_line and returns False.
ReadHand ==
    /\ pc["frame"] = "read"
    /\ \E ift \in IftInputs, tt \in TtInputs :
          /\ results' = TRUE
          /\ xy' = get_coordinates(ift, tt)
          /\ is_pinched' = Pinched(ift, tt)
          /\ IF Pinched(ift, tt)
             THEN /\ CanAppend
                  /\ pc' = [pc EXCEPT !["frame"] = "decide"]
                  /\ UNCHANGED <<ret, stale>>
             ELSE /\ CanPush
                  /\ pc' = [pc EXCEPT !["frame"] = "cfnl_load"]
                  /\ ret' = [ret EXCEPT !["frame"] = "decide"]
                  /\ stale' = Interrupted
    /\ it' = [NoIter EXCEPT !.phases = <<"classify">>]
    /\ UNCHANGED <<mem, shared, rn, policy, errors, glocals>>

\* Variant of Decide: "if is_pinched:", the test of self.draw left out.
DecideGestureOnly ==
    /\ pc["frame"] = "decide"
    /\ pc' = [pc EXCEPT !["frame"] = IF is_pinched THEN "add_load" ELSE "render"]
    /\ it' = [it EXCEPT !.decided = IF draw THEN "draw" ELSE "nodraw"]
    /\ UNCHANGED <<mem, stale, shared, ret, rn, policy, results, is_pinched, xy, errors, glocals>>

\* if self.draw and is_pinched: self.add_line(x, y)
Decide ==
    /\ pc["frame"] = "decide"
    /\ pc' = [pc EXCEPT !["frame"] = IF draw /\ is_pinched THEN "add_load" ELSE "render"]
    /\ it' = [it EXCEPT !.decided = IF draw THEN "draw" ELSE "nodraw"]
    /\ UNCHANGED <<mem, stale, shared, ret, rn, policy, results, is_pinched, xy, errors, glocals>>

\* tuple(reversed(color))
Reversed(c) == <<c[3], c[2], c[1]>>

\* Variant of Segments: the colour and thickness of line[i], the later point.
SegmentsLaterStyle(line) ==
    [i \in 1..(Len(line) - 1) |->
        <<line[i][1], line[i + 1][1], Reversed(line[i + 1][3]), line[i + 1][2]>>]

\* draw_lines on one stroke: one cv2.line call per pair of consecutive
\* points, from line[i-1] to line[i] in the colour and thickness of line[i-1].
Segments(line) ==
    [i \in 1..(Len(line) - 1) |->
        <<line[i][1], line[i + 1][1], Reversed(line[i][3]), line[i][2]>>]

\* draw_lines: the cv2.line calls for all strokes of the ledger, in order.
RECURSIVE draw_lines(_)
draw_lines(ledger) ==
    IF ledger = <<>> THEN <<>>
    ELSE draw_lines(SubSeq(ledger, 1, Len(ledger) - 1)) \o Segments(Last(ledger))

\* Variant of Render: the call of draw_lines left out.
RenderBlank ==
    /\ pc["frame"] = "render"
    /\ pc' = [pc EXCEPT !["frame"] = "emit"]
    /\ board' = [none |-> FALSE, canvas |-> <<>>, circles |-> <<>>, flipped |-> TRUE]
    /\ it' = [it EXCEPT !.phases = Append(@, "render")]
    /\ UNCHANGED <<mem, stale, draw, run_video_thread, video, label, line_thickness,
                   line_color, ret, rn, policy, results, is_pinched, xy, errors, glocals>>

\* board = generate_whiteboard(...); board = self.draw_lines(board);
\* self.board = cv2.flip(board, 1).  The strokes are read in one step.
Render ==
    /\ pc["frame"] = "render"
    /\ pc' = [pc EXCEPT !["frame"] = "emit"]
    /\ board' = [none |-> FALSE, canvas |-> draw_lines(Ledger), circles |-> <<>>,
                 flipped |-> TRUE]
    /\ it' = [it EXCEPT !.phases = Append(@, "render")]
    /\ UNCHANGED <<mem, stale, draw, run_video_thread, video, label, line_thickness,
                   line_color, ret, rn, policy, results, is_pinched, xy, errors, glocals>>

\* self.indicator_color
indicator_color == <<150, 150, 150>>

\* draw_indicator: a filled circle at (x, y) of radius int(line_thickness / 2)
\* in the reversed indicator colour.
draw_indicator(frame) ==
    [frame EXCEPT !.circles =
        Append(@, <<xy, line_thickness \div 2, Reversed(indicator_color), -1>>)]

\* cv2.flip(image, 1): column x of the image becomes column width - 1 - x.
Mirror(point) == <<image_width - 1 - point[1], point[2]>>

flip(frame) ==
    [lines |-> [k \in 1..Len(frame.lines) |->
                   <<Mirror(frame.lines[k][1]), Mirror(frame.lines[k][2]),
                     frame.lines[k][3], frame.lines[k][4]>>],
     circles |-> [k \in 1..Len(frame.circles) |->
                     <<Mirror(frame.circles[k][1]), frame.circles[k][2],
                       frame.circles[k][3], frame.circles[k][4]>>]]

\* cv2.cvtColor(image, cv2.COLOR_BGR2RGB): the channels of every pixel in
\* the opposite order.
cvtColor(frame) ==
    [lines |-> [k \in 1..Len(frame.lines) |->
                   <<frame.lines[k][1], frame.lines[k][2],
                     Reversed(frame.lines[k][3]), frame.lines[k][4]>>],
     circles |-> [k \in 1..Len(frame.circles) |->
                     <<frame.circles[k][1], frame.circles[k][2],
                       Reversed(frame.circles[k][3]), frame.circles[k][4]>>]]

\* Variant of emit_data_signal: the call of cv2.cvtColor left out.
emit_unconverted(frame) == flip(frame)

\* emit_data_signal: flip, then cvtColor, then data_signal.emit.
emit_data_signal(frame) == cvtColor(flip(frame))

\* The local board of run after draw_lines: the strokes of the snapshot.
Drawn == [lines |-> board.canvas, circles |-> <<>>]

\* Variant of Emit: the indicator is drawn on the array that self.board
\* names.
EmitOnSnapshot ==
    /\ pc["frame"] = "emit"
    /\ pc' = [pc EXCEPT !["frame"] = "while"]
    /\ it' = [it EXCEPT !.emitted = TRUE, !.phases = Append(@, "emit"),
                        !.indicator = (results /\ draw /\ ~is_pinched),
                        !.sent = emit_data_signal(IF results /\ draw /\ ~is_pinched
                                                  THEN draw_indicator(Drawn)
                                                  ELSE Drawn)]
    /\ board' = IF results /\ draw /\ ~is_pinched /\ ~board.none
                THEN [board EXCEPT !.circles = flip(draw_indicator(Drawn)).circles]
                ELSE board
    /\ UNCHANGED <<mem, stale, draw, run_video_thread, video, label, line_thickness,
                   line_color, ret, rn, policy, results, is_pinched, xy, errors, glocals>>

\* if results and self.draw and not is_pinched: draw_indicator on the local
\* board, which self.board (a new array made by cv2.flip) does not share;
\* then emit_data_signal.
Emit ==
    /\ pc["frame"] = "emit"
    /\ pc' = [pc EXCEPT !["frame"] = "while"]
    /\ it' = [it EXCEPT !.emitted = TRUE, !.phases = Append(@, "emit"),
                        !.indicator = (results /\ draw /\ ~is_pinched),
                        !.sent = emit_data_signal(IF results /\ draw /\ ~is_pinched
                                                  THEN draw_indicator(Drawn)
                                                  ELSE Drawn)]
    /\ UNCHANGED <<mem, stale, shared, ret, rn, policy, results, is_pinched, xy, errors, glocals>>

\* self.video.release() after the loop.
Release ==
    /\ pc["frame"] = "release"
    /\ pc' = [pc EXCEPT !["frame"] = "done"]
    /\ video' = "released"
    /\ UNCHANGED <<mem, stale, draw, board, run_video_thread, label, line_thickness,
                   line_color, ret, rn, flocals, glocals>>

\* ------------------------------------------- check_if_pinched on its own
\* The landmarks check_if_pinched is applied to: fingertip and thumb tip on
\* the grid.
PinchInputs ==
    {lm \in [HandLandmark -> (MinCoord..MaxCoord) \X (MinCoord..MaxCoord)] :
        lm["WRIST"] = <<MinCoord, MinCoord>>}

\* A VideoThread whose run is about to call check_if_pinched(landmarks), on
\* the initial ledger or on a ledger whose stroke holds a point.
InitPinch ==
    /\ outer = [i \in OuterIds |-> IF i = 1 THEN <<1>> ELSE <<>>]
    /\ strokes \in {[i \in StrokeIds |-> <<>>],
                     [i \in StrokeIds |->
                         IF i = 1 THEN << <<<<64, 48>>, 10, <<255, 0, 0>> >> >> ELSE <<>>]}
    /\ lines = 1
    /\ draw = TRUE
    /\ board = NoBoard
    /\ run_video_thread = TRUE
    /\ video = "open"
    /\ label = "Drawing: ON"
    /\ line_thickness = 10
    /\ line_color = <<255, 0, 0>>
    /\ pc = [t \in Threads |-> IF t = "frame" THEN "check_if_pinched" ELSE "idle"]
    /\ ret = [t \in Threads |-> "none"]
    /\ ro = [t \in Threads |-> 0]
    /\ rn = [t \in Threads |-> 0]
    /\ rs = [t \in Threads |-> 0]
    /\ delete_number = 0
    /\ results = TRUE
    /\ is_pinched = FALSE
    /\ xy = <<0, 0>>
    /\ landmarks \in PinchInputs
    /\ is_index_finger_up = FALSE
    /\ errors = 0
    /\ it = NoIter
    /\ cmd = "none"
    /\ image = NoBoard
    /\ path = ""
    /\ written = {}
    /\ replaced_open = 0
    /\ pre = NoPre
    /\ stale = {}

\* check_if_pinched: return True, or call check_for_new_line and return False.
check_if_pinched ==
    /\ pc["frame"] = "check_if_pinched"
    /\ is_pinched' = Pinched(landmarks["INDEX_FINGER_TIP"], landmarks["THUMB_TIP"])
    /\ pc' = [pc EXCEPT !["frame"] =
                 IF Pinched(landmarks["INDEX_FINGER_TIP"], landmarks["THUMB_TIP"])
                 THEN "returned" ELSE "cfnl_load"]
    /\ ret' = [ret EXCEPT !["frame"] = "returned"]
    /\ it' = [it EXCEPT !.decided = "policy"]
    /\ UNCHANGED <<mem, stale, shared, rn, policy, results, xy, errors, glocals, pre>>

\* ------------------------------------- frame loop of the finger-up variant
\* src/src/app.py: add_line, check_for_new_line, draw_lines and stop are the
\* code of the pinch variant; run, the policy and get_coordinates differ.
FingerInputs ==
    {lm \in [HandLandmark -> {10} \X (1..NumHeights)] : TRUE}

\* check_if_index_finger_is_up: the loop passes every landmark whose y is
\* greater than or equal to the fingertip's and returns False at the first
\* other one.
check_if_index_finger_is_up(lm) ==
    \A l \in HandLandmark : lm[l][2] >= lm["INDEX_FINGER_TIP"][2]

\* get_coordinates of the finger-up variant: the fingertip scaled to pixels.
finger_coordinates(lm) ==
    << (lm["INDEX_FINGER_TIP"][1] * image_width) \div 100,
       (lm["INDEX_FINGER_TIP"][2] * image_height) \div 100 >>

\* success is False: image is None, and image.shape raises AttributeError.
FingerReadFail ==
    /\ pc["frame"] = "read"
    /\ pc' = [pc EXCEPT !["frame"] = "raised"]
    /\ it' = [NoIter EXCEPT !.failed = TRUE]
    /\ UNCHANGED <<mem, stale, shared, ret, rn, policy, results, is_pinched, xy, errors,
                   glocals>>

\* A frame without landmarks: check_for_new_line, then draw_lines.
FingerReadNoHand ==
    /\ pc["frame"] = "read"
    /\ CanPush
    /\ pc' = [pc EXCEPT !["frame"] = "cfnl_load"]
    /\ ret' = [ret EXCEPT !["frame"] = "render"]
    /\ it' = [NoIter EXCEPT !.phases = <<"classify">>]
    /\ stale' = Interrupted
    /\ UNCHANGED <<mem, shared, rn, policy, results, is_pinched, xy, errors, glocals>>

\* A frame with landmarks: check_if_index_finger_is_up, which returns True or
\* calls check_for_new_line and returns False; get_coordinates when True.
FingerReadHand ==
    /\ pc["frame"] = "read"
    /\ \E lm \in FingerInputs :
          /\ landmarks' = lm
          /\ results' = TRUE
          /\ is_index_finger_up' = check_if_index_finger_is_up(lm)
          /\ IF check_if_index_finger_is_up(lm)
             THEN /\ CanAppend
                  /\ xy' = finger_coordinates(lm)
                  /\ pc' = [pc EXCEPT !["frame"] = "decide"]
                  /\ UNCHANGED <<ret, stale>>
             ELSE /\ CanPush
                  /\ xy' = xy
                  /\ pc' = [pc EXCEPT !["frame"] = "cfnl_load"]
                  /\ ret' = [ret EXCEPT !["frame"] = "render"]
                  /\ stale' = Interrupted
    /\ it' = [NoIter EXCEPT !.phases = <<"classify">>]
    /\ UNCHANGED <<mem, shared, rn, is_pinched, errors, glocals>>

\* if self.draw: self.add_line(x, y)
FingerDecide ==
    /\ pc["frame"] = "decide"
    /\ pc' = [pc EXCEPT !["frame"] = IF draw THEN "add_load" ELSE "render"]
    /\ it' = [it EXCEPT !.decided = IF draw THEN "draw" ELSE "nodraw"]
    /\ UNCHANGED <<mem, stale, shared, ret, rn, policy, results, is_pinched, xy, errors,
                   glocals>>

\* self.draw_lines(image); self.board = cv2.flip(image, 1): the strokes are
\* drawn on the camera image.
FingerRender ==
    /\ pc["frame"] = "render"
    /\ pc' = [pc EXCEPT !["frame"] = "emit"]
    /\ board' = [none |-> FALSE, canvas |-> draw_lines(Ledger), circles |-> <<>>,
                 flipped |-> TRUE]
    /\ it' = [it EXCEPT !.phases = Append(@, "render")]
    /\ UNCHANGED <<mem, stale, draw, run_video_thread, video, label, line_thickness,
                   line_color, ret, rn, policy, results, is_pinched, xy, errors, glocals>>

\* draw_circle: a circle at (x, y) of radius 50 and thickness 10 in the
\* reversed line colour of the settings.
draw_circle(frame) ==
    [frame EXCEPT !.circles = Append(@, <<xy, 50, Reversed(line_color), 10>>)]

\* if result and is_index_finger_up: draw_circle; if success: emit_signal.
FingerEmit ==
    /\ pc["frame"] = "emit"
    /\ pc' = [pc EXCEPT !["frame"] = "while"]
    /\ it' = [it EXCEPT !.emitted = TRUE, !.phases = Append(@, "emit"),
                        !.indicator = (results /\ is_index_finger_up),
                        !.sent = emit_data_signal(IF results /\ is_index_finger_up
                                                  THEN draw_circle(Drawn)
                                                  ELSE Drawn)]
    /\ UNCHANGED <<mem, stale, shared, ret, rn, policy, results, is_pinched, xy, errors,
                   glocals>>

FingerStep ==
    \/ While
    \/ FingerReadFail
    \/ FingerReadNoHand
    \/ FingerReadHand
    \/ FingerDecide
    \/ AddLoad
    \/ AddLen
    \/ AddSubscript
    \/ AddAppend
    \/ CfnlLoad("frame")
    \/ CfnlLen("frame")
    \/ CfnlSubscript("frame")
    \/ CfnlTest("frame")
    \/ CfnlLoad2("frame")
    \/ CfnlAppend("frame")
    \/ FingerRender
    \/ FingerEmit
    \/ Release

\* ---------------------------------------------------------- user commands
\* History: the command that starts.
Start(c) == cmd' = c

\* toggle_draw: self.draw = not self.draw, then check_for_new_line() ...
ToggleDraw ==
    /\ pc["gui"] = "idle"
    /\ CanPush
    /\ draw' = ~draw
    /\ pc' = [pc EXCEPT !["gui"] = "cfnl_load"]
    /\ ret' = [ret EXCEPT !["gui"] = "toggle_label"]
    /\ Start("toggle_draw")
    /\ UNCHANGED <<mem, stale, board, run_video_thread, video, label, line_thickness,
                   line_color, rn, delete_number, flocals, saving, replaced_open>>

\* ... then label.setText and button.setText.
ToggleLabel ==
    /\ pc["gui"] = "toggle_label"
    /\ pc' = [pc EXCEPT !["gui"] = "ret"]
    /\ label' = IF draw THEN "Drawing: ON" ELSE "Drawing: OFF"
    /\ UNCHANGED <<mem, stale, draw, board, run_video_thread, video, line_thickness,
                   line_color, ret, rn, flocals, glocals>>

\* undo: delete_number = 1 if self.lines[len(self.lines) - 1] else 2
Undo ==
    /\ LastLoad("gui", "idle", "undo_len")
    /\ Start("undo")
    /\ UNCHANGED <<shared, ret, delete_number, flocals, saving, replaced_open>>

UndoLen ==
    /\ LastLen("gui", "undo_len", "undo_idx")
    /\ UNCHANGED <<shared, ret, flocals, glocals>>

UndoSubscript ==
    /\ LastSubscript("gui", "undo_idx", "undo_test")
    /\ UNCHANGED <<shared, ret, flocals, glocals>>

\* Variants of UndoTest: delete_number = 1, and delete_number = 2, whatever
\* the last stroke holds.
UndoTestOne ==
    /\ pc["gui"] = "undo_test"
    /\ pc' = [pc EXCEPT !["gui"] = "undo_load2"]
    /\ delete_number' = 1
    /\ Mem(outer, strokes, lines, ro, [rs EXCEPT !["gui"] = 0])
    /\ UNCHANGED <<shared, ret, rn, flocals, cmd, saving, replaced_open>>

UndoTestTwo ==
    /\ pc["gui"] = "undo_test"
    /\ pc' = [pc EXCEPT !["gui"] = "undo_load2"]
    /\ delete_number' = 2
    /\ Mem(outer, strokes, lines, ro, [rs EXCEPT !["gui"] = 0])
    /\ UNCHANGED <<shared, ret, rn, flocals, cmd, saving, replaced_open>>

UndoTest ==
    /\ pc["gui"] = "undo_test"
    /\ pc' = [pc EXCEPT !["gui"] = "undo_load2"]
    /\ delete_number' = IF strokes[rs["gui"]] # <<>> THEN 1 ELSE 2
    /\ Mem(outer, strokes, lines, ro, [rs EXCEPT !["gui"] = 0])
    /\ UNCHANGED <<shared, ret, rn, flocals, cmd, saving, replaced_open>>

\* self.lines = self.lines[:-delete_number]: load self.lines ...
UndoLoad2 ==
    /\ pc["gui"] = "undo_load2"
    /\ pc' = [pc EXCEPT !["gui"] = "undo_slice"]
    /\ Mem(outer, strokes, lines, [ro EXCEPT !["gui"] = lines], rs)
    /\ UNCHANGED <<shared, ret, rn, flocals, glocals>>

\* ... copy it without its last delete_number elements into a new list ...
UndoSlice ==
    /\ pc["gui"] = "undo_slice"
    /\ FreeOuter # {}
    /\ pc' = [pc EXCEPT !["gui"] = "undo_store"]
    /\ Mem([outer EXCEPT ![Min(FreeOuter)] = SliceOff(outer[ro["gui"]], delete_number)],
           strokes, lines, [ro EXCEPT !["gui"] = Min(FreeOuter)], rs)
    /\ UNCHANGED <<shared, ret, rn, flocals, glocals>>

\* ... and store the new list in self.lines.
UndoStore ==
    /\ pc["gui"] = "undo_store"
    /\ pc' = [pc EXCEPT !["gui"] = "undo_if"]
    /\ Mem(outer, strokes, ro["gui"], [ro EXCEPT !["gui"] = 0], rs)
    /\ delete_number' = 0
    /\ UNCHANGED <<shared, ret, rn, flocals, cmd, saving, replaced_open>>

\* self.check_for_new_line() if self.lines else self.clear()
UndoIf ==
    /\ pc["gui"] = "undo_if"
    /\ pc' = [pc EXCEPT !["gui"] = IF outer[lines] # <<>> THEN "cfnl_load" ELSE "clear"]
    /\ ret' = [ret EXCEPT !["gui"] = "ret"]
    /\ UNCHANGED <<mem, stale, shared, rn, flocals, glocals>>

\* Variant of clear: self.lines = [], a list without a stroke.
clearNoStroke(from) ==
    /\ pc["gui"] = from
    /\ FreeOuter # {}
    /\ pc' = [pc EXCEPT !["gui"] = "ret"]
    /\ Mem([outer EXCEPT ![Min(FreeOuter)] = <<>>], strokes, Min(FreeOuter), ro, rs)
    /\ UNCHANGED <<shared, ret, rn, delete_number, flocals, saving, replaced_open>>

\* clear: self.lines = [[]], a new list holding one new empty stroke.
clear(from) ==
    /\ pc["gui"] = from
    /\ FreeOuter # {}
    /\ FreeStroke # {}
    /\ pc' = [pc EXCEPT !["gui"] = "ret"]
    /\ Mem([outer EXCEPT ![Min(FreeOuter)] = <<Min(FreeStroke)>>],
           [strokes EXCEPT ![Min(FreeStroke)] = <<>>],
           Min(FreeOuter), ro, rs)
    /\ UNCHANGED <<shared, ret, rn, delete_number, flocals, saving, replaced_open>>

\* The Clear button.
Clear ==
    /\ clear("idle")
    /\ Start("clear")

\* clear() called by undo.
UndoClear ==
    /\ clear("clear")
    /\ UNCHANGED cmd

\* -------------------------------------------------------------------- save
\* The paths the file dialog returns: none chosen, or a file name.
Paths == {"", "Drawing.png"}

\* The Save button: image = self.board ...
Save ==
    /\ pc["gui"] = "idle"
    /\ Cardinality(written) < MaxWritten
    /\ pc' = [pc EXCEPT !["gui"] = "save_dialog"]
    /\ image' = board
    /\ Start("save")
    /\ UNCHANGED <<mem, stale, shared, ret, rn, delete_number, flocals, path, written, replaced_open>>

\* ... path, _ = QFileDialog.getSaveFileName(...) ...
SaveDialog ==
    /\ pc["gui"] = "save_dialog"
    /\ pc' = [pc EXCEPT !["gui"] = "save_if"]
    /\ path' \in Paths
    /\ UNCHANGED <<mem, stale, shared, ret, rn, delete_number, cmd, flocals, image, written, replaced_open>>

\* Variant of SaveIf: the test of the path left out.
SaveIfAlways ==
    /\ pc["gui"] = "save_if"
    /\ pc' = [pc EXCEPT !["gui"] = IF image.none THEN "raised" ELSE "ret"]
    /\ written' = IF image.none THEN written ELSE written \cup {<<path, image>>}
    /\ UNCHANGED <<mem, stale, shared, ret, rn, delete_number, cmd, flocals, image, path, replaced_open>>

\* ... if path: cv2.imwrite(path, image), which raises cv2.error when the
\* image is None.
SaveIf ==
    /\ pc["gui"] = "save_if"
    /\ pc' = [pc EXCEPT !["gui"] = IF path # "" /\ image.none THEN "raised" ELSE "ret"]
    /\ written' = IF path # "" /\ ~image.none THEN written \cup {<<path, image>>}
                  ELSE written
    /\ UNCHANGED <<mem, stale, shared, ret, rn, delete_number, cmd, flocals, image, path, replaced_open>>

SaveStep ==
    \/ Save
    \/ SaveDialog
    \/ SaveIf

\* The handler returns to the event loop.
Return ==
    /\ pc["gui"] = "ret"
    /\ pc' = [pc EXCEPT !["gui"] = "idle"]
    /\ cmd' = "none"
    /\ UNCHANGED <<mem, stale, shared, ret, rn, delete_number, flocals, saving, replaced_open>>

\* closeEvent -> stop: self.run_video_thread = False, then self.wait() ...
Stop ==
    /\ pc["gui"] = "idle"
    /\ pc' = [pc EXCEPT !["gui"] = "wait"]
    /\ run_video_thread' = FALSE
    /\ cmd' = "stop"
    /\ UNCHANGED <<mem, stale, draw, board, video, label, line_thickness, line_color,
                   ret, rn, delete_number, flocals, saving, replaced_open>>

\* Variant of Wait: stop returns without waiting for run to return.
WaitNoJoin ==
    /\ pc["gui"] = "wait"
    /\ pc' = [pc EXCEPT !["gui"] = "closed"]
    /\ UNCHANGED <<mem, stale, shared, ret, rn, flocals, glocals>>

\* ... which returns once run has returned.
Wait ==
    /\ pc["gui"] = "wait"
    /\ pc["frame"] = "done"
    /\ pc' = [pc EXCEPT !["gui"] = "closed"]
    /\ UNCHANGED <<mem, stale, shared, ret, rn, flocals, glocals>>

\* stop called again after it has returned.
StopAgain ==
    /\ pc["gui"] = "closed"
    /\ pc' = [pc EXCEPT !["gui"] = "wait"]
    /\ run_video_thread' = FALSE
    /\ cmd' = "stop_again"
    /\ UNCHANGED <<mem, stale, draw, board, video, label, line_thickness, line_color,
                   ret, rn, delete_number, flocals, saving, replaced_open>>

\* ------------------------------------------------------------ settings.py
\* The slider offers 2..100, the colour dialog any colour: the model offers
\* one value other than the default of each.
Thicknesses == {20}

Colors == {<<0, 0, 255>>}

\* change_line_thickness: self.line_thickness = value
change_line_thickness ==
    /\ pc["gui"] = "idle"
    /\ \E value \in Thicknesses : line_thickness' = value
    /\ UNCHANGED <<mem, stale, draw, board, run_video_thread, video, label, line_color,
                   pc, ret, rn, flocals, glocals>>

\* change_line_color: the dialog returns a valid colour, which is stored, or
\* an invalid one (the dialog was cancelled), and nothing is stored.
change_line_color ==
    /\ pc["gui"] = "idle"
    /\ \E color \in Colors, isValid \in BOOLEAN :
          line_color' = IF isValid THEN color ELSE line_color
    /\ UNCHANGED <<mem, stale, draw, board, run_video_thread, video, label,
                   line_thickness, pc, ret, rn, flocals, glocals>>

\* handle_video_thread_errors, the Retry button: initialize_video_thread makes
\* self.thread a new VideoThread (its __init__ runs) and starts it.  The error
\* signal is emitted before run breaks out of its loop and releases the camera,
\* and nothing waits for the failed thread: the dialog can be answered before
\* or after the failed run's self.video.release().
Retry ==
    /\ pc["gui"] = "idle"
    /\ pc["frame"] \in {"release", "done"}
    /\ errors > 0
    /\ video = "open" => replaced_open < MaxReplaced
    /\ replaced_open' = IF video = "open" THEN replaced_open + 1 ELSE replaced_open
    /\ pc' = [pc EXCEPT !["frame"] = "while", !["gui"] = "ret"]
    /\ Mem([outer EXCEPT ![Min(FreeOuter)] = <<Min(FreeStroke)>>],
           [strokes EXCEPT ![Min(FreeStroke)] = <<>>],
           Min(FreeOuter), ro, rs)
    /\ draw' = TRUE
    /\ board' = NoBoard
    /\ run_video_thread' = TRUE
    /\ video' = "open"
    /\ errors' = 0
    /\ it' = NoIter
    /\ cmd' = "retry"
    /\ UNCHANGED <<label, line_thickness, line_color, ret, rn, policy, delete_number,
                   results, is_pinched, xy, saving>>

\* run, the last statement of a VideoThread that Retry has replaced:
\* self.video.release().
ReleaseReplaced ==
    /\ replaced_open > 0
    /\ replaced_open' = replaced_open - 1
    /\ UNCHANGED <<mem, stale, pc, board, draw, run_video_thread, video, label,
                   line_thickness, line_color, ret, rn, policy, results, is_pinched,
                   xy, errors, it, delete_number, cmd, saving>>

\* ------------------------------------------------------------ next states
CheckForNewLine(t) ==
    \/ CfnlLoad(t)
    \/ CfnlLen(t)
    \/ CfnlSubscript(t)
    \/ CfnlTest(t)
    \/ CfnlLoad2(t)
    \/ CfnlAppend(t)

FrameStep ==
    \/ While
    \/ ReadFail
    \/ ReadNoHand
    \/ ReadHand
    \/ Decide
    \/ AddLoad
    \/ AddLen
    \/ AddSubscript
    \/ AddAppend
    \/ CheckForNewLine("frame")
    \/ Render
    \/ Emit
    \/ Release

GuiStep ==
    \/ ToggleDraw
    \/ ToggleLabel
    \/ Undo
    \/ UndoLen
    \/ UndoSubscript
    \/ UndoTest
    \/ UndoLoad2
    \/ UndoSlice
    \/ UndoStore
    \/ UndoIf
    \/ Clear
    \/ UndoClear
    \/ CheckForNewLine("gui")
    \/ Return
    \/ Stop
    \/ Wait

\* The frame loop is inside add_line or check_for_new_line.
FrameInOp ==
    pc["frame"] \in {"cfnl_len", "cfnl_idx", "cfnl_test", "cfnl_load2", "cfnl_append",
                     "add_len", "add_idx", "add_append"}

\* A user command is inside undo, clear or check_for_new_line.
GuiInOp ==
    pc["gui"] \in {"cfnl_load", "cfnl_len", "cfnl_idx", "cfnl_test", "cfnl_load2",
                   "cfnl_append", "undo_len", "undo_idx", "undo_test", "undo_load2",
                   "undo_slice", "undo_store", "undo_if", "clear"}

\* No handler is running on the GUI thread.
GuiQuiet == pc["gui"] \in {"idle", "wait", "closed"}

\* History: the state a command starts from is kept until the handler has
\* returned to the event loop.
Record ==
    pre' = IF pc["gui"] = "idle" THEN [ledger |-> Ledger, draw |-> draw, board |-> board]
           ELSE IF pc'["gui"] = "idle" THEN NoPre
           ELSE pre

\* An exception that leaves run or a slot is not handled: PyQt6 calls qFatal,
\* which aborts the application, so neither thread takes another step.
Aborted == \E t \in Threads : pc[t] = "raised"

\* Complete operations: an operation on the ledger runs from its first to its
\* last step without a step of the other thread in between.
Next ==
    \/ ~Aborted /\ GuiQuiet /\ FrameStep /\ UNCHANGED pre
    \/ ~Aborted /\ ~FrameInOp /\ GuiStep /\ Record

Spec == Init /\ [][Next]_vars

\* The two threads interleave at every read and write of the shared object.
NextConc ==
    \/ ~Aborted /\ FrameStep /\ UNCHANGED pre
    \/ ~Aborted /\ GuiStep /\ UNCHANGED pre

SpecConc == Init /\ [][NextConc]_vars

\* The frame loop interleaved, read by read and write by write, with the
\* Enable/Disable button alone.
ToggleStep ==
    \/ ToggleDraw
    \/ CheckForNewLine("gui")
    \/ ToggleLabel
    \/ Return

NextToggle ==
    \/ ~Aborted /\ FrameStep /\ UNCHANGED pre
    \/ ~Aborted /\ ToggleStep /\ UNCHANGED pre

SpecToggle == Init /\ [][NextToggle]_vars

\* The frame loop with the error dialog's Retry button.
NextRetry ==
    \/ ~Aborted /\ GuiQuiet /\ (FrameStep \/ ReleaseReplaced) /\ UNCHANGED pre
    \/ ~Aborted /\ (Retry \/ Return) /\ Record

SpecRetry == Init /\ [][NextRetry]_vars

\* The frame loop interleaved, step by step, with calls of stop.  The frame
\* thread is scheduled and every frame read returns; wait returns once run
\* has returned.
StopFrame == ~Aborted /\ FrameStep /\ UNCHANGED pre

StopWait == ~Aborted /\ Wait /\ UNCHANGED pre

NextStop ==
    \/ StopFrame
    \/ StopWait
    \/ ~Aborted /\ (Stop \/ StopAgain) /\ UNCHANGED pre

SpecStop == Init /\ [][NextStop]_vars /\ WF_vars(StopFrame) /\ WF_vars(StopWait)

\* The frame loop of the finger-up variant with calls of stop.
NextFinger ==
    \/ ~Aborted /\ FingerStep /\ UNCHANGED pre
    \/ ~Aborted /\ (Stop \/ Wait) /\ UNCHANGED pre

SpecFinger == Init /\ [][NextFinger]_vars

\* The frame loop, which runs on while the file dialog is open, and the Save
\* button.
NextSave ==
    \/ ~Aborted /\ FrameStep /\ UNCHANGED pre
    \/ ~Aborted /\ (SaveStep \/ Return) /\ UNCHANGED pre

SpecSave == Init /\ [][NextSave]_vars

\* A session and its retried sessions: the frame loop, the Save button and
\* the error dialog's Retry button.
NextSession ==
    \/ ~Aborted /\ (FrameStep \/ ReleaseReplaced) /\ UNCHANGED pre
    \/ ~Aborted /\ (SaveStep \/ Retry \/ Return) /\ UNCHANGED pre

SpecSession == Init /\ [][NextSession]_vars

\* The frame loop with the Enable/Disable button and the error dialog's Retry
\* button: complete operations.
NextLabel ==
    \/ ~Aborted /\ GuiQuiet /\ (FrameStep \/ ReleaseReplaced) /\ UNCHANGED pre
    \/ ~Aborted /\ ~FrameInOp /\ (ToggleStep \/ Retry) /\ Record

SpecLabel == Init /\ [][NextLabel]_vars

\* The frame loop, the last step of the frame loops that Retry has replaced,
\* and the error dialog's Retry button, interleaved step by step.
NextHandles ==
    \/ ~Aborted /\ FrameStep /\ UNCHANGED pre
    \/ ~Aborted /\ ReleaseReplaced /\ UNCHANGED pre
    \/ ~Aborted /\ (Retry \/ Return) /\ UNCHANGED pre

SpecHandles == Init /\ [][NextHandles]_vars

NextPinch ==
    \/ check_if_pinched
    \/ CheckForNewLine("frame") /\ UNCHANGED pre

SpecPinch == InitPinch /\ [][NextPinch]_vars

\* The frame loop with the settings window: complete operations.
NextStyle ==
    \/ ~Aborted /\ GuiQuiet /\ FrameStep /\ UNCHANGED pre
    \/ ~Aborted /\ ~FrameInOp /\ (change_line_thickness \/ change_line_color)
           /\ UNCHANGED pre

SpecStyle == Init /\ [][NextStyle]_vars

\* ------------------------------------------------------------- properties
\* The ledger invariant: at least one stroke, and only the last may be empty.
LedgerInv(L) == Len(L) >= 1 /\ \A i \in 1..(Len(L) - 1) : L[i] # <<>>

\* No operation on the ledger is in progress on either thread.
BetweenOperations == ~FrameInOp /\ pc["gui"] \in {"idle", "ret", "wait", "closed"}

\* A user command has just returned: the ledger is its result.
Returned(c) == pc["gui"] = "ret" /\ cmd = c

NonEmptyCount(L) == Cardinality({i \in 1..Len(L) : L[i] # <<>>})

Cleared == << <<>> >>

\* C1: after any sequence of complete operations add_line, check_for_new_line,
\* undo, clear and toggle_draw the ledger holds at least one stroke and every
\* stroke but the last is non-empty.
C1_LedgerInvariant == BetweenOperations => LedgerInv(Ledger)

C1_Witness ==
    /\ Returned("undo")
    /\ Len(pre.ledger) = 3
    /\ Len(Ledger) = 2
    /\ Ledger[1] # <<>>

\* C2: when the two threads interleave at the level of single reads and
\* writes, the ledger invariant holds in every state in which neither the
\* frame loop nor a user command is inside an operation on the ledger.
C2_InvariantUnderInterleaving ==
    (~FrameInOp /\ ~GuiInOp) => (Ledger # <<>> /\ LedgerInv(Ledger))

\* C3: undo on [S1..Sk, empty] with k >= 1 yields [S1..S(k-1), empty].
C3_UndoRemovesLastCompleted ==
    (/\ Returned("undo")
     /\ Len(pre.ledger) >= 2
     /\ Last(pre.ledger) = <<>>)
    => Ledger = SubSeq(pre.ledger, 1, Len(pre.ledger) - 2) \o Cleared

C3_Witness ==
    /\ Returned("undo")
    /\ Len(pre.ledger) = 3
    /\ Last(pre.ledger) = <<>>
    /\ pre.ledger[1] # pre.ledger[2]
    /\ Ledger = <<pre.ledger[1], <<>> >>

\* C4: undo on a ledger whose last stroke is non-empty removes only that
\* stroke, keeps the earlier ones and ends with exactly one empty stroke.
C4_UndoDiscardsInProgress ==
    (/\ Returned("undo")
     /\ Len(pre.ledger) >= 1
     /\ Last(pre.ledger) # <<>>)
    => Ledger = SubSeq(pre.ledger, 1, Len(pre.ledger) - 1) \o Cleared

C4_Witness ==
    /\ Returned("undo")
    /\ Len(pre.ledger) = 3
    /\ Last(pre.ledger) # <<>>
    /\ Ledger = <<pre.ledger[1], pre.ledger[2], <<>> >>

\* C5: clear yields exactly one empty stroke from every ledger and leaves
\* DrawEnabled and the snapshot unchanged.
C5_ClearResets ==
    Returned("clear") => Ledger = Cleared /\ draw = pre.draw /\ board = pre.board

C5_Witness ==
    /\ Returned("clear")
    /\ Len(pre.ledger) = 3
    /\ ~pre.draw
    /\ ~pre.board.none
    /\ Ledger = Cleared

\* C6: every undo lowers the number of non-empty strokes by exactly one until
\* none is left; the ledger then is the single empty stroke that clear
\* yields, and a further undo leaves it so.
C6_UndoReachesCleared ==
    /\ Returned("undo") =>
          /\ NonEmptyCount(Ledger) =
                IF NonEmptyCount(pre.ledger) > 0 THEN NonEmptyCount(pre.ledger) - 1 ELSE 0
          /\ LedgerInv(Ledger)
    /\ (Returned("undo") \/ Returned("clear")) /\ NonEmptyCount(Ledger) = 0
          => Ledger = Cleared

C6_Witness ==
    /\ Returned("undo")
    /\ pre.ledger = Cleared
    /\ Ledger = Cleared

C8_BoundaryOnInterruption == ~it.joined

C8_Witness ==
    /\ it.appended
    /\ stale # {}
    /\ Len(Ledger) = 3

\* C9: no access to the last stroke raises IndexError on either thread.
C9_NoLedgerAccessFails == \A t \in Threads : pc[t] # "raised"

\* C10: after a failed read exactly one error signal was emitted, that
\* iteration changed no stroke and emitted no frame, and the loop only goes
\* on to release the camera: it reads no further frame.
C10_ReadFailureHalts ==
    errors > 0 =>
        /\ errors = 1
        /\ pc["frame"] \in {"release", "done"}
        /\ it = [NoIter EXCEPT !.failed = TRUE]

C10_Witness ==
    /\ errors = 1
    /\ pc["frame"] = "done"
    /\ video = "released"
    /\ Len(Ledger) = 3

\* C11: when Retry has restarted the frame loop after a failed read, the
\* ledger is the ledger that existed when the user chose Retry.
C11_RetryPreservesLedger == Returned("retry") => Ledger = pre.ledger

\* C12: every call of stop returns only when the frame loop has ended and the
\* camera is released, also a repeated call and a call after a failed read;
\* once stop has cleared the flag the loop begins no further iteration; and
\* every call of stop returns.
C12_StopReleasesBeforeReturning ==
    /\ [](pc["gui"] = "closed" => (pc["frame"] = "done" /\ video = "released"))
    /\ [][~run_video_thread => (pc'["frame"] = "read" => pc["frame"] = "read")]_vars
    /\ (pc["gui"] = "wait") ~> (pc["gui"] = "closed")

C12_Witness ==
    /\ pc["gui"] = "closed"
    /\ cmd = "stop_again"
    /\ errors = 1
    /\ Len(Ledger) = 3

\* C13: in each variant, whenever the frame loop has ended, by stop or by a
\* failed frame read, the camera is released.
C13_ReleasedOnEveryExit == pc["frame"] \in {"done", "raised"} => video = "released"

\* C14: the point a frame appends holds the thickness and colour the settings
\* had when it was appended, and a step that changes the settings changes no
\* stroke of the ledger.
C14_StyleFrozenAtAppend ==
    /\ [](it.appended =>
            Last(Last(Ledger)) = <<xy, it.style[1], it.style[2]>>)
    /\ [][(line_thickness' # line_thickness \/ line_color' # line_color)
            => Ledger' = Ledger]_vars

C14_Witness ==
    /\ it.appended
    /\ line_thickness = 20
    /\ line_color = <<0, 0, 255>>
    /\ Last(Last(Ledger)) = <<xy, 10, <<255, 0, 0>> >>
    /\ Len(Last(Ledger)) = 2

\* The number of segments of a stroke of n points, and of the strokes before
\* the k-th stroke of a ledger.
SegmentCount(n) == IF n > 1 THEN n - 1 ELSE 0

RECURSIVE SegmentsBefore(_, _)
SegmentsBefore(L, k) ==
    IF k <= 1 THEN 0 ELSE SegmentsBefore(L, k - 1) + SegmentCount(Len(L[k - 1]))

\* C15: the rendering of a ledger draws, for every stroke of n points,
\* max(n - 1, 0) segments, stroke after stroke; the i-th segment of a stroke
\* joins its points i and i + 1 in the thickness and colour of point i.
C15_SegmentsOfStroke ==
    pc["frame"] = "emit" =>
        /\ Len(board.canvas) = SegmentsBefore(Ledger, Len(Ledger) + 1)
        /\ \A k \in 1..Len(Ledger) : \A i \in 1..(Len(Ledger[k]) - 1) :
              board.canvas[SegmentsBefore(Ledger, k) + i] =
                  <<Ledger[k][i][1], Ledger[k][i + 1][1],
                    <<Ledger[k][i][3][3], Ledger[k][i][3][2], Ledger[k][i][3][1]>>,
                    Ledger[k][i][2]>>

C15_Witness ==
    /\ pc["frame"] = "emit"
    /\ Len(Ledger) = 3
    /\ Len(Ledger[1]) = 2
    /\ Len(Ledger[2]) = 1
    /\ Ledger[3] = <<>>
    /\ Ledger[1][1][2] # Ledger[1][2][2]
    /\ Ledger[1][1][3] # Ledger[1][2][3]
    /\ board.canvas = << <<Ledger[1][1][1], Ledger[1][2][1], <<0, 0, 255>>, 10>> >>

\* C16: a frame renders the cursor indicator only when a hand is present, the
\* gesture is active and drawing is disabled, and never in a frame that
\* appended a point.
C16_IndicatorOnlyWhenDisabled ==
    [][(it'.indicator /\ ~it.indicator)
          => (results /\ is_pinched /\ ~draw /\ ~it.appended)]_vars

\* The differences of the fingertip and the thumb tip, in hundredths.
DiffX == Abs(landmarks["INDEX_FINGER_TIP"][1] - landmarks["THUMB_TIP"][1])

DiffY == Abs(landmarks["INDEX_FINGER_TIP"][2] - landmarks["THUMB_TIP"][2])

PolicyApplied == it.decided = "policy"

\* C17, as stated: the gesture is active if and only if both differences are
\* strictly below 0.05, so a difference of 0.05 on an axis is inactive.
C17_PinchPolicyExact ==
    PolicyApplied =>
        (is_pinched <=> (DiffX < pinch_tolerance /\ DiffY < pinch_tolerance))

\* C17, amended: differences of at most 0.04 on both axes are active, a
\* difference of at least 0.06 on an axis is inactive, and a difference of
\* 0.05 is decided by the comparison of the doubles: 0.10 against 0.15 is
\* below the tolerance, 0.08 against 0.13 is not.
C17_PinchPolicy ==
    PolicyApplied =>
        /\ (DiffX < pinch_tolerance /\ DiffY < pinch_tolerance) => is_pinched
        /\ (DiffX > pinch_tolerance \/ DiffY > pinch_tolerance) => ~is_pinched
        /\ (/\ landmarks["INDEX_FINGER_TIP"] = <<10, 10>>
            /\ landmarks["THUMB_TIP"] \in {<<15, 10>>, <<10, 15>>, <<15, 15>>})
              => is_pinched
        /\ (/\ landmarks["INDEX_FINGER_TIP"][1] = 8
            /\ landmarks["THUMB_TIP"][1] = 13)
              => ~is_pinched

C17_Witness ==
    /\ PolicyApplied
    /\ pc["frame"] = "returned"
    /\ landmarks["INDEX_FINGER_TIP"] = <<10, 10>>
    /\ landmarks["THUMB_TIP"] = <<15, 14>>
    /\ is_pinched

\* C18: in the finger-up variant the gesture is active if and only if the
\* y of the index fingertip is strictly less than the y of every other
\* landmark.
C18_FingerUpPolicy ==
    (results /\ landmarks # NoLandmarks) =>
        (is_index_finger_up <=>
            \A l \in HandLandmark \ {"INDEX_FINGER_TIP"} :
                landmarks["INDEX_FINGER_TIP"][2] < landmarks[l][2])

\* A step of save().
SaveTakesStep ==
    /\ pc["gui"] \in {"idle", "save_dialog", "save_if"}
    /\ pc'["gui"] \in {"save_dialog", "save_if", "ret", "raised"}
    /\ pc'["gui"] # pc["gui"]

\* C19: a save() whose dialog returns the empty path writes no file, raises
\* no error, and none of its steps changes the ledger, DrawEnabled or the
\* snapshot.
C19_SaveWithoutPath ==
    [][SaveTakesStep =>
          /\ (Ledger' = Ledger /\ draw' = draw /\ board' = board)
          /\ (pc["gui"] = "save_if" /\ path = "")
                => (written' = written /\ pc'["gui"] = "ret")]_vars

C19_Witness ==
    /\ Returned("save")
    /\ path = ""
    /\ ~image.none
    /\ written = {}
    /\ board # image
    /\ Len(Ledger) = 2

\* C20: under every interleaving of add_line with undo, clear and
\* toggle_draw, the stroke a point is appended to is the last stroke of the
\* ledger at the moment of the append.
C20_AppendExtendsLastStroke ==
    [][(pc["frame"] = "add_append" /\ pc'["frame"] # "add_append") =>
          (/\ outer[lines] # <<>>
           /\ outer[lines][Len(outer[lines])] = rs["frame"])]_vars

\* C21: check_for_new_line, here the call made by toggle_draw, pushes one
\* empty stroke exactly when the last stroke is non-empty and otherwise
\* leaves the ledger as it is; the strokes it found are unaltered; a call on
\* a ledger whose last stroke is already empty (such as its own result)
\* changes nothing.
C21_CheckForNewLine ==
    Returned("toggle_draw") =>
        /\ Last(pre.ledger) # <<>> => Ledger = Append(pre.ledger, <<>>)
        /\ Last(pre.ledger) = <<>> => Ledger = pre.ledger
        /\ SubSeq(Ledger, 1, Len(pre.ledger)) = pre.ledger
        /\ Last(Ledger) = <<>>

C21_Witness ==
    /\ Returned("toggle_draw")
    /\ Len(pre.ledger) = 2
    /\ Len(Last(pre.ledger)) = 2
    /\ Ledger = Append(pre.ledger, <<>>)

\* C22: toggle_draw negates DrawEnabled, no other step of it changes the
\* flag, and when it returns the current (last) stroke of the ledger is empty.
C22_ToggleClosesStroke ==
    /\ [][(pc["gui"] = "idle" /\ cmd' = "toggle_draw") => draw' = ~draw]_vars
    /\ [][(cmd = "toggle_draw" /\ pc["gui"] # "idle") => draw' = draw]_vars
    /\ [](Returned("toggle_draw") => (Ledger # <<>> /\ Last(Ledger) = <<>>))

\* The frame that was read held no landmarks, and the loop is past the call
\* of check_for_new_line.
NoHandFrame == ~results /\ pc["frame"] \in {"render", "emit"}

\* The iteration of a frame without landmarks has ended.
NoHandFrameDone == ~results /\ pc["frame"] = "while" /\ it.emitted

\* C23: a frame that was read and holds no landmarks appends no point, leaves
\* the last stroke of the ledger empty, is rendered and emitted without the
\* indicator, signals no error, and the loop goes on to its next test.
C23_NoHandIsNoError ==
    /\ (~results /\ ~it.failed /\ pc["frame"] \notin {"while", "read", "release", "done"})
          => (/\ pc["frame"] \in {"cfnl_load", "cfnl_len", "cfnl_idx", "cfnl_test",
                                  "cfnl_load2", "cfnl_append", "render", "emit"}
              /\ ~it.appended
              /\ errors = 0)
    /\ (NoHandFrame /\ ~GuiInOp) => (Ledger # <<>> /\ Last(Ledger) = <<>>)
    /\ (NoHandFrame /\ pc["frame"] = "emit") => ~board.none
    /\ NoHandFrameDone => (~it.appended /\ ~it.indicator /\ ~it.failed /\ errors = 0)

C23_Witness ==
    /\ NoHandFrameDone
    /\ it.mutated
    /\ Len(Ledger) = 3
    /\ Len(Ledger[2]) = 2

\* The orders in which a frame that was read goes through its phases.
FramePhases ==
    {<<"classify", "mutate", "render", "emit">>, <<"classify", "render", "emit">>}

IsPrefix(p, q) == Len(p) <= Len(q) /\ p = SubSeq(q, 1, Len(p))

\* C24: a frame that was read is classified, then changes the ledger, then
\* is rendered, then is emitted, each once and in this order; the frame is
\* emitted once; and the strokes are rendered from the ledger as it is at the
\* rendering, which comes after the append of that frame.
C24_FrameOrdering ==
    /\ [](\E q \in FramePhases : IsPrefix(it.phases, q))
    /\ []((it.appended /\ it.phases # <<>>) =>
             IsPrefix(it.phases, <<"classify", "mutate", "render", "emit">>))
    /\ [](pc["frame"] = "emit" => Last(it.phases) = "render")
    /\ []((pc["frame"] = "while" /\ it.phases # <<>>) => it.phases \in FramePhases)
    /\ [][(pc["frame"] = "render" /\ pc'["frame"] = "emit")
             => board'.canvas = draw_lines(Ledger)]_vars
    /\ [][(pc["frame"] = "emit" /\ pc'["frame"] = "while")
             => (it'.emitted /\ ~it.emitted /\ board' = board)]_vars

C24_Witness ==
    /\ pc["frame"] = "while"
    /\ it.phases = <<"classify", "mutate", "render", "emit">>
    /\ it.appended
    /\ Ledger # <<>>
    /\ Len(Last(Ledger)) = 2
    /\ board.canvas # <<>>
    /\ Last(board.canvas)[2] = xy

\* C25: the snapshot changes only when a frame's strokes have been rendered
\* (or to None when a session is retried), save takes its image from the
\* snapshot, and every file save writes holds such an image: a rendered,
\* mirrored frame, never None.
C25_SaveWritesRenderedSnapshot ==
    /\ [][board' # board =>
             \/ (pc["frame"] = "render" /\ pc'["frame"] = "emit")
             \/ (cmd' = "retry" /\ board' = NoBoard)]_vars
    /\ [][(pc["frame"] = "render" /\ pc'["frame"] = "emit") =>
             (~board'.none /\ board'.flipped /\ board'.canvas = draw_lines(Ledger))]_vars
    /\ [][image' # image => (pc["gui"] = "idle" /\ image' = board)]_vars
    /\ [][written' # written =>
             (~image.none /\ image.flipped /\ written' = written \cup {<<path, image>>})]_vars
    /\ [](\A w \in written : ~w[2].none /\ w[2].flipped)

C25_Witness ==
    /\ Returned("save")
    /\ written = {<<"Drawing.png", image>>}
    /\ image.canvas # <<>>
    /\ board # image
    /\ pc["frame"] = "render"

\* The place in a rendering of the i-th segment of the k-th stroke.
SegmentAt(k, i) == SegmentsBefore(Ledger, k) + i

\* Every segment of the frame just emitted joins the mirror images of its two
\* points: the frame was flipped once.
MirroredOnce ==
    /\ Len(it.sent.lines) = SegmentsBefore(Ledger, Len(Ledger) + 1)
    /\ \A k \in 1..Len(Ledger) : \A i \in 1..(Len(Ledger[k]) - 1) :
          /\ it.sent.lines[SegmentAt(k, i)][1] = Mirror(Ledger[k][i][1])
          /\ it.sent.lines[SegmentAt(k, i)][2] = Mirror(Ledger[k][i + 1][1])
    /\ \A c \in 1..Len(it.sent.circles) : it.sent.circles[c][1] = Mirror(xy)

\* C26, as stated: every emitted frame is mirrored once, its channel order is
\* converted once, at emit time, and no channel reordering is applied at draw
\* time: a segment is drawn in the colour as the ledger stores it, and is
\* emitted in that colour with its channels in the opposite order.
C26_ConvertedOnExitOnly ==
    (pc["frame"] = "while" /\ it.emitted) =>
        /\ MirroredOnce
        /\ \A k \in 1..Len(Ledger) : \A i \in 1..(Len(Ledger[k]) - 1) :
              /\ board.canvas[SegmentAt(k, i)][3] = Ledger[k][i][3]
              /\ it.sent.lines[SegmentAt(k, i)][3] = Reversed(Ledger[k][i][3])

\* C26, amended: every emitted frame is mirrored once and its channel order
\* is converted once, at emit time; the colour of a segment, which the ledger
\* stores as (R, G, B), is reversed once more at draw time, so the frame
\* emitted shows the segment in the colour as stored.
C26_ConvertedOnceAndDrawnReversed ==
    (pc["frame"] = "while" /\ it.emitted) =>
        /\ MirroredOnce
        /\ \A k \in 1..Len(Ledger) : \A i \in 1..(Len(Ledger[k]) - 1) :
              /\ board.canvas[SegmentAt(k, i)][3] = Reversed(Ledger[k][i][3])
              /\ it.sent.lines[SegmentAt(k, i)][3] = Ledger[k][i][3]
        /\ \A c \in 1..Len(it.sent.circles) : it.sent.circles[c][3] = indicator_color

C26_Witness ==
    /\ pc["frame"] = "while"
    /\ it.emitted
    /\ it.indicator
    /\ Len(Ledger) = 2
    /\ Len(Ledger[1]) = 2
    /\ it.sent.lines = << <<Mirror(Ledger[1][1][1]), Mirror(Ledger[1][2][1]),
                            <<255, 0, 0>>, 10>> >>
    /\ board.canvas[1][3] = <<0, 0, 255>>

\* C27: whenever no handler is running, the label reads "Drawing: ON"
\* exactly when self.draw of the VideoThread in use is true.
C27_LabelAgreesWithDraw ==
    pc["gui"] = "idle" => (label = "Drawing: ON" <=> draw)

\* C28: at most one camera handle is held at any time: the handle of the frame
\* loop in use and the handles of the frame loops that Retry has replaced are
\* never open together.
Handles == (IF video = "open" THEN 1 ELSE 0) + replaced_open

C28_OneCameraHandle == Handles <= 1

\* C29: the snapshot kept for save never contains the cursor indicator: it is
\* taken after the strokes are rendered and before the indicator is drawn, the
\* step that draws the indicator leaves it unchanged, and a saved image shows
\* the mirrored strokes only.
EmitStep == pc["frame"] = "emit" /\ pc'["frame"] = "while"

C29_SnapshotWithoutIndicator ==
    /\ [][EmitStep => /\ board' = board
                      /\ it.phases # <<>> /\ Last(it.phases) = "render"
                      /\ (it'.indicator => it'.sent.circles # <<>>)]_vars
    /\ [][pc["frame"] = "render" /\ pc'["frame"] = "emit"
             => /\ board'.canvas = draw_lines(Ledger)
                /\ board'.circles = <<>>
                /\ board'.flipped]_vars
    /\ [](board.circles = <<>> /\ image.circles = <<>>)
    /\ [](\A w \in written : w[2].circles = <<>> /\ w[2].flipped)

\* A saved image that is the snapshot of a frame on which the indicator was
\* drawn over strokes.
C29_Witness ==
    /\ it.indicator
    /\ it.sent.circles # <<>>
    /\ \E w \in written : w[2] = board /\ w[2].canvas # <<>>

====
